---- MODULE Spec2Model ----
(***************************************************************************)
(* Model of image/convert-downsize-pipeline.py: the batch orchestrator     *)
(* _do_convert (discovery, destination computation, skip-if-exists, the    *)
(* per-file conversion, the summary) run repeatedly over one input tree    *)
(* and one output directory, and the resize step of process_raw.           *)
(*                                                                         *)
(* A path is a sequence of components, a component (and a format string)   *)
(* is a sequence of one-character strings, so that suffix, lower and       *)
(* with_suffix are computed character by character as pathlib and str do.  *)
(***************************************************************************)
EXTENDS Integers, Sequences, FiniteSets

\* ------------------------------------------------------------------ bounds
\* number of successive invocations of the command over the same directories
MaxRuns == 2
\* number of destination paths that hold a foreign file before the first run
MaxPre == 1
\* largest width / height of a decoded raster, and largest --resize, tried
MaxDim == 6

\* ------------------------------------------------------------- characters
UpperChars == <<"C", "D", "G", "N", "P", "R">>
LowerChars == <<"c", "d", "g", "n", "p", "r">>

\* str.lower() on one character
LowerChar(c) ==
    IF \E k \in 1..Len(UpperChars) : UpperChars[k] = c
    THEN LowerChars[CHOOSE k \in 1..Len(UpperChars) : UpperChars[k] = c]
    ELSE c

\* str.lower()
lower(s) == [k \in 1..Len(s) |-> LowerChar(s[k])]

\* ------------------------------------------------------------------ names
Str_a_cr2 == <<"a", ".", "c", "r", "2">>
Str_a_DNG == <<"a", ".", "D", "N", "G">>
Str_b == <<"b">>
Str_c_Cr2 == <<"c", ".", "C", "r", "2">>
Str_d_dng == <<"d", ".", "d", "n", "g">>
Str_e_png == <<"e", ".", "p", "n", "g">>
Str_dot_cr2 == <<".", "c", "r", "2">>
Str_in == <<"i", "n">>
Str_out == <<"o", "u", "t">>

\* the set literal of supported RAW extensions
RAW_EXT == { <<".", "c", "r", "2">>, <<".", "d", "n", "g">> }

\* the INPUT_DIR and OUTPUT_DIR arguments
input_dir == <<Str_in>>
output_dir == <<Str_out>>

\* values of --format tried: lower case, mixed case, and the empty string
Formats == { <<"p", "n", "g">>, <<"P", "n", "G">>, <<>> }

File(rel) == [path |-> input_dir \o rel, kind |-> "file"]
Dir(rel) == [path |-> input_dir \o rel, kind |-> "dir"]

\* what the input tree is assembled from: each item is the set of directory
\* entries it adds under INPUT_DIR
Items ==
    { {File(<<Str_a_cr2>>)},
      {File(<<Str_a_DNG>>)},
      {Dir(<<Str_b>>), File(<<Str_b, Str_c_Cr2>>)},
      {Dir(<<Str_d_dng>>)},
      {File(<<Str_e_png>>), File(<<Str_dot_cr2>>)} }

Trees == { UNION sel : sel \in SUBSET Items }

\* ---------------------------------------------------------------- pathlib
\* PurePath.name
PathName(p) == p[Len(p)]

\* str.rfind("."), 1-based, 0 when there is no dot
RFindDot(n) ==
    IF \E k \in 1..Len(n) : n[k] = "."
    THEN CHOOSE k \in 1..Len(n) : n[k] = "." /\ \A j \in (k+1)..Len(n) : n[j] # "."
    ELSE 0

\* PurePath.suffix: the last dot must be neither the first nor the last character
suffix(p) ==
    LET n == PathName(p)
        i == RFindDot(n)
    IN IF 1 < i /\ i < Len(n) THEN SubSeq(n, i, Len(n)) ELSE <<>>

\* PurePath.with_suffix: ValueError for a separator in the suffix and for "."
with_suffix(p, suf) ==
    IF (\E k \in 1..Len(suf) : suf[k] = "/") \/ suf = <<".">>
    THEN [err |-> TRUE, path |-> <<>>]
    ELSE LET n == PathName(p)
             old == suffix(p)
             new == SubSeq(n, 1, Len(n) - Len(old)) \o suf
         IN [err |-> FALSE, path |-> SubSeq(p, 1, Len(p) - 1) \o <<new>>]

\* PurePath.relative_to, for a path under base
relative_to(p, base) == SubSeq(p, Len(base) + 1, Len(p))

\* the comprehension's filter: p.suffix.lower() in RAW_EXT
IsRaw(e) == lower(suffix(e.path)) \in RAW_EXT

\* mutant: the format is not lowercased before it becomes the suffix
Destination_keep_case(e, f) ==
    LET r == with_suffix(relative_to(e.path, input_dir), <<".">> \o f)
    IN IF r.err THEN r ELSE [err |-> FALSE, path |-> output_dir \o r.path]

\* the destination computed for one discovered entry
Destination(e, f) ==
    LET r == with_suffix(relative_to(e.path, input_dir), <<".">> \o lower(f))
    IN IF r.err THEN r ELSE [err |-> FALSE, path |-> output_dir \o r.path]

\* every destination path a run over any tree can compute with format f
Dests(f) ==
    { Destination(e, f).path : e \in { x \in UNION Items : IsRaw(x) /\ ~Destination(x, f).err } }

Perms(S) ==
    { s \in [1..Cardinality(S) -> S] : \A i, j \in 1..Cardinality(S) : s[i] = s[j] => i = j }

\* directories mkdir(parents=True) makes sure exist, from OUTPUT_DIR down
Parents(p) == { SubSeq(p, 1, k) : k \in Len(output_dir)..(Len(p) - 1) }

Absent == [kind |-> "absent", src |-> <<>>]
Old == [kind |-> "old", src |-> <<>>]
Full(e) == [kind |-> "full", src |-> e.path]
Trunc(e) == [kind |-> "trunc", src |-> e.path]

NoSummary == [emitted |-> FALSE, total |-> 0, skips |-> 0]
NoPrev == [pc |-> "none", total |-> 0, skips |-> 0]
NoPath == [err |-> FALSE, path |-> <<>>]


\* ------------------------------------------------------------------ state
VARIABLES
    tree,         \* the entries under INPUT_DIR (unchanged by the program)
    fmt,          \* the --format argument, the same in every run
    out,          \* OUTPUT_DIR: destination path -> content
    dirs,         \* the directories that exist at or under OUTPUT_DIR
    run,          \* number of the current invocation
    pc,           \* Scanning, NoFilesFound, Processing, Summarizing, Aborted
    raw_files,    \* the discovered list, in enumeration order
    idx,          \* position of the loop in raw_files
    total,        \* len(raw_files)
    skips,        \* the skip counter
    progress,     \* the progress bar's count (pbar.update)
    output_path,  \* the destination computed last
    last,         \* position of the file output_path was computed for
    notice,       \* the kind of the line echoed last
    summary,      \* the summary line, once emitted
    exit_code,    \* the process's exit status, -1 while it runs
    out0,         \* out as it was when the current run started
    dirs0,        \* dirs as they were when the current run started
    calls,        \* invocations of process_raw in the current run
    written,      \* destinations process_raw wrote to in the current run, in order
    fate,         \* what the loop did at each position reached: skip, ok, raise
    trail,        \* the values pc has taken in the current run, in order
    prev,         \* how the previous run ended
    resize,       \* the --resize argument: None or an integer
    rgb,          \* size <<width, height>> of the raster process_raw decoded
    img,          \* size <<width, height>> of the image process_raw holds
    ppc           \* position inside process_raw: decoded, resized, saved

vars == <<tree, fmt, out, dirs, run, pc, raw_files, idx, total, skips, progress,
          output_path, last, notice, summary, exit_code, out0, dirs0, calls,
          written, fate, trail, prev, resize, rgb, img, ppc>>

args == <<tree, fmt, resize, rgb, img, ppc>>
counters == <<total, skips, progress>>
history == <<out0, dirs0, prev, run>>

\* mutant: the existence check is lost, every file is converted
exists_never(p) == FALSE

\* mutant: only an output that was written in full counts as existing
exists_complete(p) == p \in DOMAIN out /\ out[p].kind \in {"old", "full"}

\* mutant: existence is decided from a listing taken when the run started
exists_at_start(p) == p \in DOMAIN out0 /\ out0[p].kind # "absent"

\* Path.exists() of a destination
exists(p) == p \in DOMAIN out /\ out[p].kind # "absent"

\* Path.rglob("*"): every entry under INPUT_DIR, files and directories alike
rglob(t) == t

\* the list comprehension, in the order the directory walk yields
Discovered(t) == Perms({ e \in rglob(t) : IsRaw(e) })

RunStart ==
    /\ idx = 0 /\ total = 0 /\ skips = 0 /\ progress = 0
    /\ raw_files = <<>> /\ output_path = NoPath /\ last = 0
    /\ notice = "none" /\ summary = NoSummary /\ exit_code = -1
    /\ calls = 0 /\ written = <<>> /\ fate = <<>>
    /\ trail = <<"Scanning">>

\* a fresh process: every local of _do_convert is unset again
RunReset ==
    /\ idx' = 0 /\ total' = 0 /\ skips' = 0 /\ progress' = 0
    /\ raw_files' = <<>> /\ output_path' = NoPath /\ last' = 0
    /\ notice' = "none" /\ summary' = NoSummary /\ exit_code' = -1
    /\ calls' = 0 /\ written' = <<>> /\ fate' = <<>>
    /\ trail' = <<"Scanning">>

Init ==
    /\ tree \in Trees
    /\ fmt \in Formats
    /\ out \in { o \in [Dests(fmt) -> {Absent, Old}] :
                   Cardinality({ d \in Dests(fmt) : o[d] = Old }) <= MaxPre }
    /\ dirs = UNION { Parents(d) : d \in { x \in Dests(fmt) : out[x] = Old } }
    /\ run = 1
    /\ pc = "Scanning"
    /\ RunStart
    /\ out0 = out /\ dirs0 = dirs
    /\ prev = NoPrev
    /\ resize = [none |-> FALSE, val |-> 384]
    /\ rgb = <<0, 0>> /\ img = <<0, 0>> /\ ppc = "idle"

\* ------------------------------------------------------------ process_raw
\* The outcomes of converting entry e to destination p:
\*   ok            decoded, parents made, file written in full
\*   decode_error  rawpy.imread / postprocess raises: nothing touched
\*   write_error   parents made, save raises and leaves no file
\*   interrupted   parents made, the process is stopped while save writes
Outcomes(e) ==
    IF e.kind = "file" THEN {"ok", "decode_error", "write_error", "interrupted"}
    ELSE {"decode_error"}

\* mutant: the image is encoded but never saved to output_path
process_raw_nosave(e, p, outcome) ==
    [ out |-> IF outcome = "interrupted" THEN [out EXCEPT ![p] = Trunc(e)] ELSE out,
      dirs |-> IF outcome = "decode_error" THEN dirs ELSE dirs \cup Parents(p),
      raised |-> outcome # "ok" ]

process_raw(e, p, outcome) ==
    [ out |-> CASE outcome = "ok" -> [out EXCEPT ![p] = Full(e)]
                [] outcome = "interrupted" -> [out EXCEPT ![p] = Trunc(e)]
                [] OTHER -> out,
      dirs |-> IF outcome = "decode_error" THEN dirs ELSE dirs \cup Parents(p),
      raised |-> outcome # "ok" ]

\* ------------------------------------------------------------ _do_convert
\* mutant: the empty case echoes and returns normally
ScanNoFiles_exit0 ==
    /\ pc = "Scanning"
    /\ Discovered(tree) = {<<>>}
    /\ pc' = "NoFilesFound"
    /\ trail' = Append(trail, "NoFilesFound")
    /\ notice' = "nofiles"
    /\ exit_code' = 0
    /\ UNCHANGED <<args, out, dirs, raw_files, idx, counters, output_path, last,
                   summary, calls, written, fate, history>>

\* no RAW file discovered: echo, raise typer.Exit(1)
ScanNoFiles ==
    /\ pc = "Scanning"
    /\ Discovered(tree) = {<<>>}
    /\ pc' = "NoFilesFound"
    /\ trail' = Append(trail, "NoFilesFound")
    /\ notice' = "nofiles"
    /\ exit_code' = 1
    /\ UNCHANGED <<args, out, dirs, raw_files, idx, counters, output_path, last,
                   summary, calls, written, fate, history>>

\* at least one discovered: total, skips, start_ts and the progress bar
ScanFound ==
    /\ pc = "Scanning"
    /\ \E fs \in Discovered(tree) :
         /\ fs # <<>>
         /\ raw_files' = fs
         /\ total' = Len(fs)
    /\ skips' = 0 /\ progress' = 0
    /\ idx' = 1
    /\ pc' = "Processing"
    /\ trail' = Append(trail, "Processing")
    /\ UNCHANGED <<args, out, dirs, output_path, last, notice, summary, exit_code,
                   calls, written, fate, history>>

\* mutant: the per-file exception is caught and the loop goes on
Propagate_continue ==
    /\ idx' = idx + 1
    /\ UNCHANGED <<pc, trail, exit_code, counters, summary>>

\* the uncaught exception leaves _do_convert: nothing after the loop runs
Propagate ==
    /\ pc' = "Aborted"
    /\ trail' = Append(trail, "Aborted")
    /\ exit_code' = 1
    /\ UNCHANGED <<idx, counters, summary>>

\* with_suffix raises ValueError for the suffix built from fmt
LoopBadSuffix ==
    /\ pc = "Processing" /\ idx <= total
    /\ LET d == Destination(raw_files[idx], fmt)
       IN /\ d.err
          /\ output_path' = d
          /\ last' = idx
    /\ fate' = Append(fate, "raise")
    /\ Propagate
    /\ UNCHANGED <<args, out, dirs, raw_files, notice, calls, written, history>>

\* the destination exists: count, echo, advance the bar, continue
LoopSkip ==
    /\ pc = "Processing" /\ idx <= total
    /\ LET d == Destination(raw_files[idx], fmt)
       IN /\ ~d.err
          /\ exists(d.path)
          /\ output_path' = d
          /\ last' = idx
    /\ skips' = skips + 1
    /\ notice' = "skip"
    /\ progress' = progress + 1
    /\ idx' = idx + 1
    /\ fate' = Append(fate, "skip")
    /\ UNCHANGED <<args, out, dirs, pc, trail, raw_files, total, summary, exit_code,
                   calls, written, history>>

\* the destination does not exist and process_raw returns
LoopConvert ==
    /\ pc = "Processing" /\ idx <= total
    /\ LET e == raw_files[idx]
           d == Destination(e, fmt)
       IN /\ ~d.err
          /\ ~exists(d.path)
          /\ "ok" \in Outcomes(e)
          /\ output_path' = d
          /\ last' = idx
          /\ out' = process_raw(e, d.path, "ok").out
          /\ dirs' = process_raw(e, d.path, "ok").dirs
          /\ written' = Append(written, d.path)
    /\ notice' = "convert"
    /\ calls' = calls + 1
    /\ progress' = progress + 1
    /\ idx' = idx + 1
    /\ fate' = Append(fate, "ok")
    /\ UNCHANGED <<args, pc, trail, raw_files, total, skips, summary, exit_code,
                   history>>

\* the destination does not exist and process_raw raises (or is stopped)
LoopRaise ==
    /\ pc = "Processing" /\ idx <= total
    /\ LET e == raw_files[idx]
           d == Destination(e, fmt)
       IN /\ ~d.err
          /\ ~exists(d.path)
          /\ output_path' = d
          /\ last' = idx
          /\ \E o \in Outcomes(e) \ {"ok"} :
               /\ out' = process_raw(e, d.path, o).out
               /\ dirs' = process_raw(e, d.path, o).dirs
               /\ written' = IF o = "interrupted" THEN Append(written, d.path) ELSE written
    /\ notice' = "convert"
    /\ calls' = calls + 1
    /\ fate' = Append(fate, "raise")
    /\ Propagate
    /\ UNCHANGED <<args, raw_files, history>>

\* mutant: the run ends without the summary line
Summarize_silent ==
    /\ pc = "Processing" /\ idx > total
    /\ notice' = "done"
    /\ exit_code' = 0
    /\ pc' = "Summarizing"
    /\ trail' = Append(trail, "Summarizing")
    /\ UNCHANGED <<args, out, dirs, raw_files, idx, counters, output_path, last,
                   summary, calls, written, fate, history>>

\* after the loop: elapsed time and the summary line
Summarize ==
    /\ pc = "Processing" /\ idx > total
    /\ summary' = [emitted |-> TRUE, total |-> total, skips |-> skips]
    /\ notice' = "done"
    /\ exit_code' = 0
    /\ pc' = "Summarizing"
    /\ trail' = Append(trail, "Summarizing")
    /\ UNCHANGED <<args, out, dirs, raw_files, idx, counters, output_path, last,
                   calls, written, fate, history>>

Terminal == pc \in {"NoFilesFound", "Summarizing", "Aborted"}

\* the command is invoked again with the same arguments
NextRun ==
    /\ Terminal
    /\ run < MaxRuns
    /\ run' = run + 1
    /\ prev' = [pc |-> pc, total |-> total, skips |-> skips]
    /\ out0' = out /\ dirs0' = dirs
    /\ pc' = "Scanning"
    /\ RunReset
    /\ UNCHANGED <<args, out, dirs>>

Next ==
    \/ ScanNoFiles
    \/ ScanFound
    \/ LoopBadSuffix
    \/ LoopSkip
    \/ LoopConvert
    \/ LoopRaise
    \/ Summarize
    \/ NextRun

Spec == Init /\ [][Next]_vars

\* ------------------------------------------------- process_raw: resize
\* math.floor and math.ceil of the quotient a / b of positive integers
FloorDiv(a, b) == a \div b
CeilDiv(a, b) == IF a % b = 0 THEN a \div b ELSE (a \div b) + 1
Abs(a) == IF a < 0 THEN -a ELSE a
Max2(a, b) == IF a >= b THEN a ELSE b
Min2(a, b) == IF a <= b THEN a ELSE b

\* mutant: Image.resize((n, n)) in place of Image.thumbnail
thumbnail_resize(w, h, n) == <<n, n>>

\* Image.thumbnail((n, n)) on a w x h image: unchanged when it fits,
\* otherwise the longer edge becomes n and the other is the floor or the
\* ceiling of the exact value, whichever keeps the aspect ratio closer (the
\* floor on a tie), and at least 1
thumbnail(w, h, n) ==
    IF n >= w /\ n >= h THEN <<w, h>>
    ELSE IF w <= h
         THEN LET f == FloorDiv(n * w, h)
                  c == CeilDiv(n * w, h)
                  x == IF Abs(w * n - f * h) <= Abs(w * n - c * h) THEN f ELSE c
              IN <<Max2(x, 1), n>>
         ELSE LET f == FloorDiv(n * h, w)
                  c == CeilDiv(n * h, w)
                  y == IF f = 0 \/ Abs(w * f - n * h) * c <= Abs(w * c - n * h) * f
                       THEN f ELSE c
              IN <<n, Max2(y, 1)>>

\* the guard: resize and resize > 0
ShouldResize(r) == ~r.none /\ r.val # 0 /\ r.val > 0

None == [none |-> TRUE, val |-> 0]
IntArg(n) == [none |-> FALSE, val |-> n]

\* the values of resize tried: None, a negative one, 0, and 1..MaxDim+1
ResizeArgs == {None} \cup { IntArg(n) : n \in -1..(MaxDim + 1) }

\* one call of process_raw on a decoded raster, the batch left at its start
InitResize ==
    /\ tree = {} /\ fmt = <<"p", "n", "g">>
    /\ out = [d \in Dests(fmt) |-> Absent]
    /\ dirs = {}
    /\ run = 1 /\ pc = "Scanning"
    /\ RunStart
    /\ out0 = out /\ dirs0 = dirs
    /\ prev = NoPrev
    /\ resize \in ResizeArgs
    /\ rgb \in (1..MaxDim) \X (1..MaxDim)
    /\ img = rgb
    /\ ppc = "decoded"

batch == <<tree, fmt, out, dirs, run, pc, raw_files, idx, total, skips, progress,
           output_path, last, notice, summary, exit_code, out0, dirs0, calls,
           written, fate, trail, prev>>

\* resize is set and positive: img.thumbnail((resize, resize), LANCZOS)
ResizeApplied ==
    /\ ppc = "decoded"
    /\ ShouldResize(resize)
    /\ img' = thumbnail(img[1], img[2], resize.val)
    /\ ppc' = "resized"
    /\ UNCHANGED <<batch, resize, rgb>>

\* resize is None, 0 or negative: the image is left as decoded
ResizeSkipped ==
    /\ ppc = "decoded"
    /\ ~ShouldResize(resize)
    /\ ppc' = "resized"
    /\ UNCHANGED <<batch, resize, rgb, img>>

\* img.save: the written image has the size img has
Save ==
    /\ ppc = "resized"
    /\ ppc' = "saved"
    /\ UNCHANGED <<batch, resize, rgb, img>>

NextResize ==
    \/ ResizeApplied
    \/ ResizeSkipped
    \/ Save

SpecResize == InitResize /\ [][NextResize]_vars

\* ----------------------------------------------------------------- claims
RawSet == { e \in tree : IsRaw(e) }
ValidFormat == fmt # <<>> /\ \A k \in 1..Len(fmt) : fmt[k] # "/"
DestOf(k) == Destination(raw_files[k], fmt).path
AllAbsentAtStart == \A d \in DOMAIN out0 : out0[d].kind = "absent"

\* C1: after a run that ran to completion, the next run with the same arguments
\* over the same tree writes nothing (no call of process_raw, OUTPUT_DIR as it
\* was, every file reached is skipped, no abort) and its summary's skip count
\* equals the completed run's total.
C1_Idempotent ==
    (run > 1 /\ prev.pc = "Summarizing") =>
        /\ calls = 0 /\ written = <<>>
        /\ out = out0 /\ dirs = dirs0
        /\ pc # "Aborted"
        /\ \A k \in 1..Len(fate) : fate[k] = "skip"
        /\ skips = progress
        /\ (pc = "Summarizing" =>
              /\ summary.total = prev.total
              /\ summary.skips = prev.total)

C1_Witness ==
    /\ run = 2 /\ prev.pc = "Summarizing" /\ prev.skips = 0 /\ prev.total >= 2
    /\ pc = "Summarizing" /\ summary.skips = prev.total

\* one step, as C2 has it: existing content is kept, the skip branch counts and
\* advances without calling process_raw, only an absent destination changes
C2_Step ==
    /\ \A d \in DOMAIN out : out[d].kind # "absent" => out'[d] = out[d]
    /\ \A d \in DOMAIN out : out'[d] # out[d] => out[d].kind = "absent"
    /\ (pc = "Processing" /\ idx <= total /\ ValidFormat
          /\ out[DestOf(idx)].kind # "absent") =>
            /\ skips' = skips + 1
            /\ progress' = progress + 1
            /\ calls' = calls
            /\ idx' = idx + 1

\* C2: in every step of every run a destination that exists keeps its content;
\* a file whose destination exists when it is reached is counted as skipped,
\* advances the progress by one and causes no call of process_raw; a
\* destination changes only when it did not exist.
C2_NeverOverwritten == [][C2_Step]_vars

C2_Witness ==
    /\ notice = "skip" /\ skips >= 1 /\ last >= 2
    /\ out[output_path.path] = Old
    /\ calls >= 1

\* the empty case and the completed case: "no files found", status 1 and
\* nothing touched; status 0 after a summary over at least one file
C3_Common ==
    /\ (pc # "Scanning" /\ RawSet = {}) => pc = "NoFilesFound"
    /\ pc = "NoFilesFound" =>
          /\ RawSet = {} /\ raw_files = <<>>
          /\ notice = "nofiles"
          /\ exit_code = 1
          /\ out = out0 /\ dirs = dirs0
          /\ calls = 0 /\ written = <<>> /\ fate = <<>>
          /\ ~summary.emitted
    /\ pc = "Summarizing" => (total >= 1 /\ exit_code = 0)

\* C3 (as amended): with no RAW file discovered the run reports "no files
\* found", exits with status 1 and leaves OUTPUT_DIR untouched (no file, no
\* directory, no conversion, no summary); a run that finds a file and
\* completes exits with status 0; status 1 is the status of the empty case and
\* of a run aborted by an uncaught per-file error, and of no other.
C3_NoFilesFound ==
    /\ C3_Common
    /\ exit_code = 1 <=> pc \in {"NoFilesFound", "Aborted"}

C3_Witness ==
    /\ pc = "NoFilesFound" /\ exit_code = 1
    /\ tree # {} /\ dirs = {}

\* C3 as stated: exit status 1 is produced only when no RAW file is found.
C3_Original ==
    /\ C3_Common
    /\ exit_code = 1 => pc = "NoFilesFound"

\* the claimed destination of entry e for format f: OUTPUT_DIR, then the
\* components of e's path below INPUT_DIR, the last one with everything from
\* its last dot on replaced by a dot and the lowercased format
C4_IsClaimedDestination(d, e, f) ==
    LET rel == SubSeq(e.path, Len(input_dir) + 1, Len(e.path))
        n == rel[Len(rel)]
        dn == d[Len(d)]
    IN /\ Len(d) = Len(output_dir) + Len(rel)
       /\ SubSeq(d, 1, Len(output_dir)) = output_dir
       /\ \A k \in 1..(Len(rel) - 1) : d[Len(output_dir) + k] = rel[k]
       /\ \E st \in 1..(Len(n) - 1) :
            /\ n[st + 1] = "."
            /\ \A j \in (st + 2)..Len(n) : n[j] # "."
            /\ Len(dn) = st + 1 + Len(f)
            /\ SubSeq(dn, 1, st) = SubSeq(n, 1, st)
            /\ dn[st + 1] = "."
            /\ \A j \in 1..Len(f) :
                 /\ dn[st + 1 + j] = LowerChar(f[j])
                 /\ \A u \in 1..Len(UpperChars) : dn[st + 1 + j] # UpperChars[u]

\* C4 (as amended): for every discovered file and every format string that is
\* not empty and holds no path separator, the destination computed is
\* OUTPUT_DIR joined with the path relative to INPUT_DIR, its final extension
\* replaced by "." and the lowercased format, whatever the casing of either.
C4_DestinationPath ==
    (last > 0 /\ ValidFormat) =>
        /\ ~output_path.err
        /\ C4_IsClaimedDestination(output_path.path, raw_files[last], fmt)

C4_Witness ==
    /\ last > 0 /\ ~output_path.err
    /\ fmt = <<"P", "n", "G">>
    /\ raw_files[last] = File(<<Str_b, Str_c_Cr2>>)
    /\ output_path.path = <<Str_out, Str_b, <<"c", ".", "p", "n", "g">> >>

\* C4 as stated: for every format string.
C4_Original ==
    last > 0 =>
        /\ ~output_path.err
        /\ C4_IsClaimedDestination(output_path.path, raw_files[last], fmt)

\* C5: the discovered list holds exactly the files (not directories) under
\* INPUT_DIR whose extension, compared case-insensitively, is .cr2 or .dng,
\* each exactly once.
C5_ExactlyRawFiles ==
    pc \in {"Processing", "Summarizing", "Aborted"} =>
        /\ { raw_files[k] : k \in 1..Len(raw_files) } =
             { e \in tree : e.kind = "file" /\ lower(suffix(e.path)) \in RAW_EXT }
        /\ \A i, j \in 1..Len(raw_files) : raw_files[i] = raw_files[j] => i = j

\* C7 (as amended): the summary (total files, skip count) is emitted at the end
\* of every run that processed all its files; a run that aborts on a per-file
\* error emits no summary.
C7_Summary ==
    /\ pc = "Summarizing" =>
          /\ summary.emitted
          /\ summary.total = Len(raw_files)
          /\ summary.skips = Cardinality({ k \in 1..Len(fate) : fate[k] = "skip" })
    /\ pc = "Aborted" => ~summary.emitted

C7_Witness ==
    /\ pc = "Summarizing" /\ summary.emitted
    /\ summary.total = 3 /\ summary.skips = 1

\* C7 as stated: the summary is emitted also when the run aborts.
C7_Original ==
    pc \in {"Summarizing", "Aborted"} => summary.emitted

\* the run's state machine: Scanning -> NoFilesFound | Processing,
\* Processing -> Summarizing | Aborted, nothing after a terminal state; a
\* position where process_raw (or the path computation) raised ends the run
C8_Trail ==
    /\ trail \in { <<"Scanning">>,
                   <<"Scanning", "NoFilesFound">>,
                   <<"Scanning", "Processing">>,
                   <<"Scanning", "Processing", "Summarizing">>,
                   <<"Scanning", "Processing", "Aborted">> }
    /\ pc = trail[Len(trail)]
    /\ (\E k \in 1..Len(fate) : fate[k] = "raise") => pc = "Aborted"

\* what holds of an aborted run whatever the destinations: the loop stopped at
\* position idx, nothing after it was converted, skipped or counted, and what
\* was written before it is still there
C8_AbortedCommon ==
    pc = "Aborted" =>
        /\ 1 <= idx /\ idx <= total
        /\ Len(fate) = idx /\ fate[idx] = "raise"
        /\ \A k \in 1..(idx - 1) : fate[k] \in {"skip", "ok"}
        /\ progress = idx - 1
        /\ skips + calls <= idx
        /\ ~summary.emitted
        /\ ValidFormat =>
             \A k \in 1..(idx - 1) :
                /\ out[DestOf(k)].kind # "absent"
                /\ fate[k] = "ok" => out[DestOf(k)] = Full(raw_files[k])

\* the loop is bounded: every step taken in Processing advanced the position
C8_Bounded ==
    pc = "Processing" => (1 <= idx /\ idx <= total + 1 /\ Len(fate) = idx - 1)

\* C8 (as amended): a run goes Scanning -> NoFilesFound, or Scanning ->
\* Processing -> Summarizing, or Scanning -> Processing -> Aborted, every step
\* of the loop advancing through the finite list, so that a run ends in
\* exactly one of the three terminal states.
\* When process_raw fails at position i the run is Aborted in that step: no
\* later file is converted, skipped or counted, earlier outputs stay, and the
\* destination of every later file is as it was before the run unless it is
\* also the destination of a file at a position up to i.
C8_AbortOnFirstError ==
    /\ C8_Trail
    /\ C8_AbortedCommon
    /\ C8_Bounded
    /\ (pc = "Aborted" /\ ValidFormat) =>
          \A j \in (idx + 1)..total :
             (\A k \in 1..idx : DestOf(k) # DestOf(j)) =>
                 out[DestOf(j)] = out0[DestOf(j)]

C8_Witness ==
    /\ pc = "Aborted" /\ idx = 2 /\ total = 3
    /\ fate = <<"ok", "raise">>
    /\ out[DestOf(3)] = Absent
    /\ out[DestOf(1)] = Full(raw_files[1])

\* C8 as stated: the destination of every later file is as it was before the
\* run.
C8_Original ==
    /\ C8_Trail
    /\ C8_AbortedCommon
    /\ (pc = "Aborted" /\ ValidFormat) =>
          \A j \in (idx + 1)..total : out[DestOf(j)] = out0[DestOf(j)]

\* one step, as C9 has it: truncated content is kept, and the file that maps
\* to it takes the skip branch
C9_Step ==
    /\ \A d \in DOMAIN out : out[d].kind = "trunc" => out'[d] = out[d]
    /\ (pc = "Processing" /\ idx <= total /\ ValidFormat
          /\ out[DestOf(idx)].kind = "trunc") =>
            /\ skips' = skips + 1
            /\ fate' = Append(fate, "skip")
            /\ calls' = calls
            /\ pc' = pc

\* C9: a truncated file left by a stopped write stays as it is in every later
\* step of every later run: a file whose destination holds it is skipped and
\* counted as skipped, process_raw is not called for it, and no step rewrites
\* or removes it.
C9_TruncatedStays == [][C9_Step]_vars

C9_Witness ==
    /\ run > 1 /\ prev.pc = "Aborted"
    /\ pc = "Summarizing"
    /\ \E k \in 1..total : fate[k] = "skip" /\ out[DestOf(k)].kind = "trunc"

\* C10: in a run at whose start destination d did not exist and to which
\* several discovered files map, d is written at most once, by the first of
\* them in enumeration order, and every later one reached is skipped; a run
\* that completes over an OUTPUT_DIR with no outputs reports as many skips as
\* there are files beyond the first for each destination (k for k pairs).
C10_Collision ==
    ValidFormat =>
       /\ \A d \in DOMAIN out :
            out0[d].kind = "absent" =>
               LET S == { k \in 1..total : DestOf(k) = d }
                   W == { w \in 1..Len(written) : written[w] = d }
               IN /\ Cardinality(W) <= 1
                  /\ (pc = "Summarizing" /\ S # {}) => Cardinality(W) = 1
                  /\ \A k \in S : k <= Len(fate) =>
                       IF \A j \in S : k <= j
                       THEN fate[k] \in {"ok", "raise"}
                       ELSE fate[k] = "skip"
                  /\ out[d].kind # "absent" =>
                       (\E k \in S : out[d].src = raw_files[k].path
                                      /\ \A j \in S : k <= j)
       /\ (pc = "Summarizing" /\ AllAbsentAtStart) =>
            summary.skips = total - Cardinality({ DestOf(k) : k \in 1..total })

C10_Witness ==
    /\ pc = "Summarizing" /\ AllAbsentAtStart /\ run = 1
    /\ total = 3 /\ summary.skips = 1
    /\ fate = <<"ok", "ok", "skip">>
    /\ DestOf(1) = DestOf(3)

\* C6: for a decoded raster of W x H written by process_raw: with resize = N > 0
\* and max(W, H) > N the longer edge of the written image is N, on the same
\* side, and the shorter edge is within one pixel of N * min(W, H) / max(W, H)
\* (and at least 1); with max(W, H) <= N the size is W x H; with resize 0 or
\* None the size is W x H.
C6_ResizeInvariant ==
    ppc = "saved" =>
        LET W == rgb[1]
            H == rgb[2]
            N == resize.val
            L == Max2(W, H)
            S == Min2(W, H)
            ol == Max2(img[1], img[2])
            os == Min2(img[1], img[2])
        IN /\ (resize.none \/ N = 0) => img = rgb
           /\ (~resize.none /\ N > 0 /\ L <= N) => img = rgb
           /\ (~resize.none /\ N > 0 /\ L > N) =>
                 /\ ol = N
                 /\ (W <= H) => img[2] = N
                 /\ (W >= H) => img[1] = N
                 /\ os >= 1
                 /\ \/ Abs(os * L - N * S) < L
                    \/ os = 1

C6_Witness ==
    /\ ppc = "saved"
    /\ rgb = <<4, 3>> /\ resize = IntArg(2)
    /\ img = <<2, 2>>

====
